---- MODULE Spec2Model ----
(***************************************************************************)
(* Model of the plank session timer (PlankTimer.tsx): the component state, *)
(* its event handlers, its two interval effects, the asynchronous image    *)
(* encoding of captureSnapshot and the asynchronous recorder started by    *)
(* handleComplete; and of the leaderboard aggregation (UserStats.tsx).     *)
(*                                                                         *)
(* Time is counted in seconds.  The 1 s interval and the 10 s interval are *)
(* created by the same commit, so the k-th tick is due at time k and the   *)
(* j-th periodic capture at time 10*j; a timer fires only when every timer *)
(* due strictly earlier has fired.                                         *)
(***************************************************************************)
EXTENDS Integers, Sequences, FiniteSets, TLC

\* ---------------------------------------------------------------- bounds
MaxTicks == 11          \* ticks of one session (Spec)
MaxCaptures == 2        \* captureSnapshot calls of one session (Spec)
ShortTicks == 3         \* ticks of one session (SpecShort)
LongTicks == 31         \* ticks of one session (SpecCamera)
LongCaptures == 4       \* captureSnapshot calls of one session (SpecCamera)
MaxInFlight == 1        \* image encodings outstanding at the same time
MaxRows == 3            \* rows the planks query returns (SpecViews)
MaxSeconds == 3600      \* durations handed to the formatters (SpecFormat)
FetchRows == 1          \* rows the planks query returns (SpecFetch)
RaceRows == 2           \* rows the planks query returns (SpecRace)
InputMins == {0, 1}     \* values typed into the "Min" field
InputSecs == {0, 2}     \* values typed into the "Sec" field
CountdownSecs == {0, 1, 2, 3} \* values typed into the "Sec" field (SpecCountdown)

\* ------------------------------------------------------ program constants
SnapshotPeriod == 10    \* setInterval(captureSnapshot, 10_000), in seconds
KeepSnapshots == 3      \* .slice(0, 3)

VARIABLES
    mode,            \* "stopwatch" | "timer"
    seconds,         \* elapsed (stopwatch) or remaining (timer) seconds
    initialSeconds,  \* countdown target stored by handleStart
    inputMin,
    inputSec,
    isActive,
    isCompleted,
    vowCheat,
    useCamera,
    camPending,      \* TRUE while a getUserMedia request is outstanding
    snapshots,       \* the capture buffer: sequence of blob ids
    pending,         \* blobs whose toBlob callback is still to run
    tickFired,       \* firings of the 1 s interval since it was created
    snapFired,       \* firings of the 10 s interval since it was created
    bound,           \* state captured by the handleComplete of the tick closure
    toast,           \* the notification raised by the latest UI step, or "none"
    task,            \* the recorder started by the latest handleComplete call
    planks,          \* rows of the "planks" table inserted by that recorder
    allYield,        \* history: every capture of the Active session gave an image
    session,         \* history: whether a start was accepted since the latest
                     \* reset, and the ticks since the latest accepted start
    rows,            \* the planks of the last 30 days, as the query returns them
    userId,          \* UserStats' userId prop ("" when absent)
    boardPc,         \* where loadLeaderboard stands
    boardLocal,      \* loadLeaderboard's planks, bestArr and totalArr
    best,
    total,
    loading,
    rankPc,          \* where fetchRank stands
    rankUid,         \* fetchRank's uid
    rankLocal,       \* fetchRank's planks (null read as []) and sorted
    monthlyRank,     \* 0 for null
    monthlyPercentile, \* [num, den] for num / den; NoPercentile for null
    loadingRank,
    boardToast,      \* the notification raised by the latest step of a view
    fmtT,            \* a duration in whole seconds handed to the formatters
    shown,           \* per view, the string its formatTime returned (<<>>: none yet)
    statsPc,         \* fetchStats: "idle", "user", "query", "done", "failed"
    stats,           \* UserStats' stats row ("null" for null)
    loadingStats,
    badgePc,         \* loadBadges: "idle", "query", "done", "failed"
    badges,          \* AchievementBadges' badges
    badgesLoading,   \* AchievementBadges' loading
    rankStale        \* the fetchRank call started before the latest change of
                     \* userId, if it was outstanding then: its position and uid

timerVars == <<mode, seconds, initialSeconds, inputMin, inputSec, isActive,
               isCompleted, vowCheat, bound, tickFired, session>>
cameraVars == <<useCamera, camPending>>
captureVars == <<snapshots, pending, snapFired, allYield>>
recorderVars == <<task, planks>>
plankVars == <<timerVars, cameraVars, captureVars, recorderVars, toast>>
leaderVars == <<boardPc, boardLocal, best, total, loading>>
statsVars == <<rankPc, rankUid, rankLocal, monthlyRank, monthlyPercentile, loadingRank>>
formatVars == <<fmtT, shown>>
fetchVars == <<statsPc, stats, loadingStats, badgePc, badges, badgesLoading, rankStale>>
boardVars == <<rows, userId, leaderVars, statsVars, boardToast, formatVars, fetchVars>>
restVars == <<plankVars, formatVars, fetchVars>>
vars == <<plankVars, boardVars>>

Min(a, b) == IF a < b THEN a ELSE b

Range(xs) == {xs[i] : i \in 1..Len(xs)}

\* xs.slice(0, n)
SliceFirst(xs, n) == SubSeq(xs, 1, Min(Len(xs), n))

\* ------------------------------------------------------------- closures
\* The values a handleComplete closure reads (PlankTimer.tsx:135, 165).
Closure(m, init, secs, snaps) ==
    [mode |-> m, initialSeconds |-> init, seconds |-> secs, snapshots |-> snaps]

CurrentClosure == Closure(mode, initialSeconds, seconds, snapshots)

NoClosure == Closure("stopwatch", 0, 0, <<>>)

\* const duration = mode === "timer" ? initialSeconds : seconds
Duration(cl) == IF cl.mode = "timer" THEN cl.initialSeconds ELSE cl.seconds

\* The recorder task created by one handleComplete call, at its first await.
NewTask(cl) ==
    [pc        |-> "getUser",
     duration  |-> Duration(cl),
     snaps     |-> cl.snapshots,
     user      |-> FALSE,
     inserts   |-> 0,
     plankId   |-> 0,
     attempted |-> <<>>,
     paths     |-> <<>>,
     updates   |-> 0,
     written   |-> FALSE,
     toasts    |-> <<>>]

NoTask == [NewTask(NoClosure) EXCEPT !.pc = "none"]

NoPercentile == [num |-> 0, den |-> 1]

\* No earlier fetchRank call is followed.
NoCall == [pc |-> "idle", uid |-> ""]

\* No start accepted since the component was mounted or reset.
NoSession == [open |-> FALSE, ticks |-> 0]

\* The views before their first fetch, for the query result `rs` and the
\* userId prop `u`.
InitBoard(rs, u) ==
    /\ rows = rs
    /\ userId = u
    /\ boardPc = "idle"
    /\ boardLocal = [planks |-> <<>>, bestArr |-> <<>>, totalArr |-> <<>>]
    /\ best = <<>>
    /\ total = <<>>
    /\ loading = TRUE
    /\ rankPc = "idle"
    /\ rankUid = ""
    /\ rankLocal = [planks |-> <<>>, sorted |-> <<>>]
    /\ monthlyRank = 0
    /\ monthlyPercentile = NoPercentile
    /\ loadingRank = TRUE
    /\ boardToast = "none"
    /\ statsPc = "idle"
    /\ stats = "null"
    /\ loadingStats = TRUE
    /\ badgePc = "idle"
    /\ badges = <<>>
    /\ badgesLoading = TRUE
    /\ rankStale = NoCall

InitTimer ==
    /\ mode = "stopwatch"
    /\ seconds = 0
    /\ initialSeconds = 0
    /\ inputMin = 0
    /\ inputSec = 0
    /\ isActive = FALSE
    /\ isCompleted = FALSE
    /\ vowCheat = FALSE
    /\ useCamera = FALSE
    /\ camPending = FALSE
    /\ snapshots = <<>>
    /\ pending = {}
    /\ tickFired = 0
    /\ snapFired = 0
    /\ bound = NoClosure
    /\ toast = "none"
    /\ task = NoTask
    /\ planks = <<>>
    /\ allYield = TRUE
    /\ session = NoSession

\* The four views that format a duration.
Views == {"timer", "stats", "leaderboard", "detail"}

\* No view has formatted the duration `t` yet.
InitFormat(t) ==
    /\ fmtT = t
    /\ shown = [v \in Views |-> <<>>]

Init == InitTimer /\ InitBoard(<<>>, "") /\ InitFormat(0)

\* ------------------------------------------------------ simple UI handlers
\* onClick={() => !isActive && setMode(m)}; the tabs are rendered when !isCompleted
SetMode(m) ==
    /\ UNCHANGED boardVars
    /\ ~isCompleted
    /\ ~isActive
    /\ mode' = m
    /\ toast' = "none"
    /\ UNCHANGED <<seconds, initialSeconds, inputMin, inputSec, isActive,
                   isCompleted, vowCheat, bound, tickFired, session>>
    /\ UNCHANGED <<cameraVars, captureVars, recorderVars>>

\* The number inputs are rendered in timer mode while !isActive and !isCompleted.
SetInputMin(v) ==
    /\ UNCHANGED boardVars
    /\ ~isCompleted /\ ~isActive /\ mode = "timer"
    /\ inputMin' = v
    /\ toast' = "none"
    /\ UNCHANGED <<mode, seconds, initialSeconds, inputSec, isActive,
                   isCompleted, vowCheat, bound, tickFired, session>>
    /\ UNCHANGED <<cameraVars, captureVars, recorderVars>>

SetInputSec(v) ==
    /\ UNCHANGED boardVars
    /\ ~isCompleted /\ ~isActive /\ mode = "timer"
    /\ inputSec' = v
    /\ toast' = "none"
    /\ UNCHANGED <<mode, seconds, initialSeconds, inputMin, isActive,
                   isCompleted, vowCheat, bound, tickFired, session>>
    /\ UNCHANGED <<cameraVars, captureVars, recorderVars>>

\* The "I solemnly swear" checkbox is rendered while !isActive and !isCompleted.
SetVowCheat(b) ==
    /\ UNCHANGED boardVars
    /\ ~isCompleted /\ ~isActive
    /\ vowCheat' = b
    /\ toast' = "none"
    /\ UNCHANGED <<mode, seconds, initialSeconds, inputMin, inputSec, isActive,
                   isCompleted, bound, tickFired, session>>
    /\ UNCHANGED <<cameraVars, captureVars, recorderVars>>

\* ------------------------------------------------------------------ camera
\* The "Use Camera" checkbox (disabled while isActive, rendered when
\* !isCompleted) and the effect on [useCamera]: switching on calls
\* getUserMedia.  The model follows one outstanding request.
ToggleCamera ==
    /\ UNCHANGED boardVars
    /\ ~isCompleted /\ ~isActive
    /\ useCamera' = ~useCamera
    /\ IF ~useCamera
          THEN ~camPending /\ camPending' = TRUE
          ELSE UNCHANGED camPending
    /\ toast' = "none"
    /\ UNCHANGED <<timerVars, captureVars, recorderVars>>

\* getUserMedia(...).then((s) => setStream(s))
CameraGranted ==
    /\ UNCHANGED boardVars
    /\ camPending
    /\ camPending' = FALSE
    /\ toast' = "none"
    /\ UNCHANGED <<useCamera, timerVars, captureVars, recorderVars>>

\* getUserMedia(...).catch(() => { toast.error(...); setUseCamera(false) });
\* the effect on [isActive, useCamera] then clears the 10 s interval.
CameraDenied ==
    /\ UNCHANGED boardVars
    /\ camPending
    /\ camPending' = FALSE
    /\ toast' = "Camera access denied."
    /\ useCamera' = FALSE
    /\ snapFired' = 0
    /\ UNCHANGED <<snapshots, pending, allYield>>
    /\ UNCHANGED <<timerVars, recorderVars>>

\* ---------------------------------------------------------------- capture
\* The <video> element is rendered when useCamera && !isCompleted.
VideoMounted(cam, done) == cam /\ ~done

\* What canvas.toBlob hands to its callback: an image, or null when the
\* frame is empty (no stream attached yet, no frame decoded yet).
BlobOutcomes == {TRUE, FALSE}

\* (mutant) the capture on start left out
CaptureSnapshotLater(pend, id, ok, mounted) ==
    IF mounted /\ ok /\ id > 1 THEN pend \cup {id} ELSE pend

\* captureSnapshot(): the callbacks outstanding after the call that captures
\* blob `id`.  A callback handed null changes nothing, so only the callbacks
\* that will be handed an image (`ok`) are kept.
CaptureSnapshot(pend, id, ok, mounted) ==
    IF mounted /\ ok THEN pend \cup {id} ELSE pend

\* (mutant) the slice left out
KeepEveryBlob(cur, blob) == Append(cur, blob)

\* setSnapshots((cur) => [...cur, blob].slice(0, 3))
KeepBlob(cur, blob) == SliceFirst(Append(cur, blob), KeepSnapshots)

\* The toBlob callback of one earlier captureSnapshot call.
DeliverBlob(b) ==
    /\ UNCHANGED boardVars
    /\ b \in pending
    /\ pending' = pending \ {b}
    /\ snapshots' = KeepBlob(snapshots, b)
    /\ toast' = "none"
    /\ UNCHANGED <<snapFired, allYield>>
    /\ UNCHANGED <<timerVars, cameraVars, recorderVars>>

\* Blob ids number the captures of the current session from 1; a blob whose
\* capture was started before the latest accepted start is relabelled 0.
Stale(b) == 0

\* ------------------------------------------------------------ handleStart
\* const total = mode === "timer" ? inputMin * 60 + inputSec : 0
Total(m, min, sec) == IF m = "timer" THEN min * 60 + sec ELSE 0

\* (mutant) total < 0 for total <= 0
NoTargetNegative(m, tot) == m = "timer" /\ tot < 0

\* if (mode === "timer" && total <= 0)
NoTarget(m, tot) == m = "timer" /\ tot <= 0

\* (mutant) setInitialSeconds(total) left out
StartTargetKept(m, tot, init) == init

\* if (mode === "timer") { setInitialSeconds(total); setSeconds(total) }
\* else setSeconds(0): the values of initialSeconds and seconds after the start.
StartTarget(m, tot, init) == IF m = "timer" THEN tot ELSE init

StartSeconds(m, tot) == IF m = "timer" THEN tot ELSE 0

\* The Start button is rendered while !isActive and !isCompleted.  An
\* accepted start commits the new state, and the effects of that commit
\* create both intervals, bind the tick closure and take the first capture.
\* The model follows one recorder at a time.  A recorder that has returned
\* is dropped at the start; its row is never read or written again by this
\* component, so the rows inserted before the start are dropped with it.
\* handleStart does not look at the recorder: with `overlap` the session may
\* also start while the recorder of the previous session is still running,
\* and that recorder goes on.
StartWhen(overlap) ==
    /\ UNCHANGED boardVars
    /\ ~isCompleted /\ ~isActive
    /\ LET tot == Total(mode, inputMin, inputSec) IN
       IF ~vowCheat
          THEN /\ toast' = "You must swear you won't cheat before you start!"
               /\ UNCHANGED <<timerVars, cameraVars, captureVars, recorderVars>>
          ELSE IF NoTarget(mode, tot)
          THEN /\ toast' = "Please set a positive timer."
               /\ UNCHANGED <<timerVars, cameraVars, captureVars, recorderVars>>
          ELSE /\ IF task.pc \in {"none", "done"}
                     THEN task' = NoTask
                     ELSE overlap /\ UNCHANGED task
               /\ planks' = <<>>
               /\ initialSeconds' = StartTarget(mode, tot, initialSeconds)
               /\ seconds' = StartSeconds(mode, tot)
               /\ isActive' = TRUE
               /\ isCompleted' = FALSE
               /\ bound' = Closure(mode, initialSeconds', seconds', <<>>)
               /\ tickFired' = 0
               /\ session' = [open |-> TRUE, ticks |-> 0]
               /\ snapshots' = <<>>
               /\ snapFired' = 0
               /\ IF useCamera
                     THEN /\ Cardinality(pending) < MaxInFlight
                          /\ \E ok \in BlobOutcomes :
                               /\ pending' = CaptureSnapshot({Stale(b) : b \in pending}, 1, ok,
                                                             VideoMounted(useCamera, isCompleted'))
                               /\ allYield' = ok
                     ELSE /\ pending' = {Stale(b) : b \in pending}
                          /\ allYield' = TRUE
               /\ toast' = "none"
               /\ UNCHANGED <<mode, inputMin, inputSec, vowCheat>>
               /\ UNCHANGED cameraVars

\* handleStart in a session that begins once the recorder of the previous one
\* has returned.
HandleStart == StartWhen(FALSE)

\* handleStart, also while the recorder of the previous session is running.
StartOverlapping == StartWhen(TRUE)

\* const handlePause = () => setIsActive(false); both effects clean up.
HandlePause ==
    /\ UNCHANGED boardVars
    /\ isActive /\ ~isCompleted
    /\ isActive' = FALSE
    /\ bound' = NoClosure
    /\ tickFired' = 0
    /\ snapFired' = 0
    /\ allYield' = TRUE
    /\ toast' = "none"
    /\ UNCHANGED <<mode, seconds, initialSeconds, inputMin, inputSec,
                   isCompleted, vowCheat, session>>
    /\ UNCHANGED <<snapshots, pending>>
    /\ UNCHANGED <<cameraVars, recorderVars>>

\* Where a button bound to handleReset is rendered.
ResetOffered ==
    \/ isCompleted
    \/ mode = "stopwatch" /\ seconds > 0
    \/ mode = "timer" /\ (inputMin > 0 \/ inputSec > 0) /\ ~isActive

\* (mutant) setVowCheat(false) left out
HandleResetKeepsVow ==
    /\ UNCHANGED boardVars
    /\ ResetOffered
    /\ isActive' = FALSE
    /\ isCompleted' = FALSE
    /\ seconds' = 0
    /\ inputMin' = 0
    /\ inputSec' = 0
    /\ useCamera' = FALSE
    /\ snapshots' = <<>>
    /\ bound' = NoClosure
    /\ tickFired' = 0
    /\ snapFired' = 0
    /\ toast' = "none"
    /\ allYield' = TRUE
    /\ session' = NoSession
    /\ UNCHANGED <<mode, initialSeconds, camPending, vowCheat>>
    /\ UNCHANGED <<pending, recorderVars>>

HandleReset ==
    /\ UNCHANGED boardVars
    /\ ResetOffered
    /\ isActive' = FALSE
    /\ isCompleted' = FALSE
    /\ seconds' = 0
    /\ inputMin' = 0
    /\ inputSec' = 0
    /\ vowCheat' = FALSE
    /\ useCamera' = FALSE
    /\ snapshots' = <<>>
    /\ bound' = NoClosure
    /\ tickFired' = 0
    /\ snapFired' = 0
    /\ toast' = "none"
    /\ allYield' = TRUE
    /\ session' = NoSession
    /\ UNCHANGED <<mode, initialSeconds, camPending>>
    /\ UNCHANGED <<pending, recorderVars>>

\* --------------------------------------------------------- handleComplete
\* The synchronous part of handleComplete run with closure `cl`: the three
\* setState calls, and the recorder task left at its first await.  `secs`
\* is the value of seconds after the commit.
HandleComplete(cl, secs) ==
    /\ isActive' = FALSE
    /\ isCompleted' = TRUE
    /\ seconds' = secs
    /\ task' = NewTask(cl)
    /\ bound' = NoClosure
    /\ tickFired' = 0
    /\ snapFired' = 0
    /\ allYield' = TRUE
    /\ toast' = "none"
    /\ UNCHANGED <<mode, initialSeconds, inputMin, inputSec, vowCheat>>
    /\ UNCHANGED <<snapshots, pending>>
    /\ UNCHANGED <<cameraVars, planks>>

\* (mutant) the interval outlives the state it was created for
IntervalKept(on) == TRUE

\* An interval created by an effect exists while the condition `on` of its
\* `if (!...) return` holds: the cleanup clears it on the commit that ends it.
IntervalSet(on) == on

\* (mutant) s <= 0 for s <= 1
CountdownDoneLate(s) == s <= 0

\* if (s <= 1) { clearInterval(timerId); handleComplete(); return 0 }
CountdownDone(s) == s <= 1

\* The 1 s interval callback: setSeconds((s) => ...), with `mode` and
\* handleComplete those of the render that created the interval.  The
\* countdown branch queues setSeconds(duration) through handleComplete while
\* the updater itself returns 0; which of the two is applied last depends on
\* whether React runs the updater eagerly or during the render, so both
\* results are possible.
TickWithin(maxTicks) ==
    /\ UNCHANGED boardVars
    /\ IntervalSet(isActive)
    /\ tickFired < maxTicks
    /\ useCamera => tickFired + 1 <= SnapshotPeriod * (snapFired + 1)
    /\ IF bound.mode = "timer" /\ CountdownDone(seconds)
          THEN /\ \E secs \in {0, Duration(bound)} : HandleComplete(bound, secs)
               /\ session' = [session EXCEPT !.ticks = @ + 1]
          ELSE /\ seconds' = IF bound.mode = "timer" THEN seconds - 1 ELSE seconds + 1
               /\ tickFired' = tickFired + 1
               /\ session' = [session EXCEPT !.ticks = @ + 1]
               /\ toast' = "none"
               /\ UNCHANGED <<mode, initialSeconds, inputMin, inputSec, isActive,
                              isCompleted, vowCheat, bound>>
               /\ UNCHANGED <<cameraVars, captureVars, recorderVars>>

\* The 10 s interval callback: captureSnapshot.
SnapWithin(maxCaptures) ==
    /\ UNCHANGED boardVars
    /\ IntervalSet(isActive /\ useCamera)
    /\ tickFired >= SnapshotPeriod * (snapFired + 1) - 1
    /\ snapFired + 1 < maxCaptures
    /\ Cardinality(pending) < MaxInFlight
    /\ snapFired' = snapFired + 1
    /\ \E ok \in BlobOutcomes :
         /\ pending' = CaptureSnapshot(pending, snapFired + 2, ok,
                                       VideoMounted(useCamera, isCompleted))
         /\ allYield' = (allYield /\ ok)
    /\ toast' = "none"
    /\ UNCHANGED snapshots
    /\ UNCHANGED <<timerVars, cameraVars, recorderVars>>

\* (mutant) the button rendered on the Completed view too
SavePlankAlways ==
    /\ UNCHANGED boardVars
    /\ mode = "stopwatch" /\ seconds > 0 /\ ~isActive
    /\ HandleComplete(CurrentClosure, Duration(CurrentClosure))
    /\ UNCHANGED session

\* The "Save plank" button: rendered in stopwatch mode when !isCompleted,
\* seconds > 0 and !isActive; it calls the handleComplete of the current render.
SavePlank ==
    /\ UNCHANGED boardVars
    /\ mode = "stopwatch" /\ ~isCompleted /\ seconds > 0 /\ ~isActive
    /\ HandleComplete(CurrentClosure, Duration(CurrentClosure))
    /\ UNCHANGED session

Tick == TickWithin(MaxTicks)

SnapInterval == SnapWithin(MaxCaptures)

\* ---------------------------------------------------------------- recorder
Notify(t, msg) == [t EXCEPT !.toasts = Append(@, msg)]

\* (mutant) the update issued whatever photoPaths holds
AlwaysUpdate(t) == [t EXCEPT !.pc = "update", !.updates = @ + 1]

\* After the upload loop: the update request is issued when photoPaths is
\* not empty, otherwise the success notification ends the call.
AfterUploads(t) ==
    IF Len(t.paths) > 0
       THEN [t EXCEPT !.pc = "update", !.updates = @ + 1]
       ELSE [Notify(t, "Plank saved!") EXCEPT !.pc = "done"]

\* The for loop between two awaits: the next upload, or what follows the loop.
NextUpload(t) ==
    IF Len(t.attempted) < Len(t.snaps)
       THEN [t EXCEPT !.pc = "upload"]
       ELSE AfterUploads(t)

\* (mutant) the missing identity reported without returning
GetUserUnchecked(ok) ==
    /\ UNCHANGED boardVars
    /\ task.pc = "getUser"
    /\ task' = IF ok THEN [task EXCEPT !.pc = "insert", !.user = TRUE, !.inserts = @ + 1]
                     ELSE [Notify(task, "You must be logged in.") EXCEPT
                              !.pc = "insert", !.inserts = @ + 1]
    /\ UNCHANGED <<planks, timerVars, cameraVars, captureVars, toast>>

\* await supabase.auth.getUser() returns
GetUserDone(ok) ==
    /\ UNCHANGED boardVars
    /\ task.pc = "getUser"
    /\ task' = IF ok THEN [task EXCEPT !.pc = "insert", !.user = TRUE, !.inserts = @ + 1]
                     ELSE [Notify(task, "You must be logged in.") EXCEPT !.pc = "done"]
    /\ UNCHANGED <<planks, timerVars, cameraVars, captureVars, toast>>

\* (mutant) the failed insert reported without returning
InsertUnchecked(res, stored) ==
    /\ UNCHANGED boardVars
    /\ task.pc = "insert"
    /\ res = "ok" => stored
    /\ res = "error" => ~stored
    /\ planks' = IF stored
                    THEN Append(planks, [duration_s |-> task.duration, photos |-> <<>>])
                    ELSE planks
    /\ task' = IF res = "ok"
                   THEN NextUpload([task EXCEPT !.plankId = Len(planks')])
                   ELSE NextUpload(Notify(task, "Could not save plank."))
    /\ UNCHANGED <<timerVars, cameraVars, captureVars, toast>>

\* await supabase.from("planks").insert(...).select("id").limit(1) returns:
\* the row and its id ("ok"), an error, or no error and no row ("empty", where
\* the row may or may not have been stored).
InsertDone(res, stored) ==
    /\ UNCHANGED boardVars
    /\ task.pc = "insert"
    /\ res = "ok" => stored
    /\ res = "error" => ~stored
    /\ planks' = IF stored
                    THEN Append(planks, [duration_s |-> task.duration, photos |-> <<>>])
                    ELSE planks
    /\ task' = IF res = "ok"
                   THEN NextUpload([task EXCEPT !.plankId = Len(planks')])
                   ELSE [Notify(task, "Could not save plank.") EXCEPT !.pc = "done"]
    /\ UNCHANGED <<timerVars, cameraVars, captureVars, toast>>

\* (mutant) a failed upload ends the loop
UploadStopsOnError(ok) ==
    /\ UNCHANGED boardVars
    /\ task.pc = "upload"
    /\ LET i == Len(task.attempted)
           tried == [task EXCEPT !.attempted = Append(@, task.snaps[i + 1])]
       IN task' = IF ok THEN NextUpload([tried EXCEPT !.paths = Append(@, i + 1)])
                        ELSE AfterUploads(Notify(tried, "Could not upload photo."))
    /\ UNCHANGED <<planks, timerVars, cameraVars, captureVars, toast>>

\* await supabase.storage.from("plank-photos").upload(fileName, snapshots[i])
\* returns; the path of upload i is written i + 1.
UploadDone(ok) ==
    /\ UNCHANGED boardVars
    /\ task.pc = "upload"
    /\ LET i == Len(task.attempted)
           tried == [task EXCEPT !.attempted = Append(@, task.snaps[i + 1])]
       IN task' = IF ok THEN NextUpload([tried EXCEPT !.paths = Append(@, i + 1)])
                        ELSE NextUpload(Notify(tried, "Could not upload photo."))
    /\ UNCHANGED <<planks, timerVars, cameraVars, captureVars, toast>>

\* await supabase.from("planks").update({ photos: photoPaths }).eq("id", plankId)
\* returns; a failure is only logged.
UpdateDone(ok) ==
    /\ UNCHANGED boardVars
    /\ task.pc = "update"
    /\ planks' = IF ok THEN [planks EXCEPT ![task.plankId].photos = task.paths]
                       ELSE planks
    /\ task' = [Notify(task, "Plank saved!") EXCEPT !.pc = "done", !.written = ok]
    /\ UNCHANGED <<timerVars, cameraVars, captureVars, toast>>

\* ------------------------------------------------------------ aggregation
\* The identities of the bounded inputs, and their durations.
Users == {"u1", "u2", "u3"}
Durations == {0, 1, 3}

RECURSIVE SeqsUpTo(_, _)
\* The sequences over S of length at most n.
SeqsUpTo(S, n) ==
    IF n = 0 THEN {<<>>}
    ELSE LET shorter == SeqsUpTo(S, n - 1)
         IN shorter \cup {Append(q, x) : q \in {r \in shorter : Len(r) = n - 1}, x \in S}

RECURSIVE Keys(_)
\* Object.entries(...) lists string keys in the order of their first
\* assignment: the identities of `rs` in order of first appearance.
Keys(rs) ==
    IF rs = <<>> THEN <<>>
    ELSE LET front == Keys(SubSeq(rs, 1, Len(rs) - 1))
             u == rs[Len(rs)].user_id
         IN IF \E i \in 1..Len(front) : front[i] = u THEN front ELSE Append(front, u)

\* stats[p.user_id].push(p.duration_s): the durations of `u`, in row order.
DurationsOf(rs, u) ==
    LET mine == SelectSeq(rs, LAMBDA p : p.user_id = u)
    IN [i \in 1..Len(mine) |-> mine[i].duration_s]

RECURSIVE SumSeq(_)
\* durations.reduce((sum, d) => sum + d, 0)
SumSeq(ds) == IF ds = <<>> THEN 0 ELSE SumSeq(SubSeq(ds, 1, Len(ds) - 1)) + ds[Len(ds)]

\* (mutant) only the first duration considered
MaxSeqFirst(ds) == ds[1]

\* Math.max(...durations), for a non-empty list
MaxSeq(ds) == CHOOSE m \in Range(ds) : \A d \in Range(ds) : d <= m

RECURSIVE SortDesc(_)
\* .sort((a, b) => b.value - a.value): a stable sort, descending by value
SortDesc(es) ==
    IF es = <<>> THEN <<>>
    ELSE LET front == SortDesc(SubSeq(es, 1, Len(es) - 1))
             e == es[Len(es)]
             k == Cardinality({i \in 1..Len(front) : front[i].value >= e.value})
         IN SubSeq(front, 1, k) \o <<e>> \o SubSeq(front, k + 1, Len(front))

\* (mutant) rank: i
RankedFromZero(es) ==
    [i \in 1..Len(es) |-> [user_id |-> es[i].user_id, value |-> es[i].value, rank |-> i - 1]]

\* .map((e, i) => ({ ...e, rank: i + 1 }))
Ranked(es) == [i \in 1..Len(es) |-> [user_id |-> es[i].user_id, value |-> es[i].value, rank |-> i]]

\* loadLeaderboard's bestArr (value stands for best_time)
BestArr(rs) ==
    LET ks == Keys(rs)
    IN Ranked(SortDesc([i \in 1..Len(ks) |->
                          [user_id |-> ks[i], value |-> MaxSeq(DurationsOf(rs, ks[i]))]]))

\* (mutant) the total taken as the longest single duration
TotalArrOfBest(rs) == BestArr(rs)

\* loadLeaderboard's totalArr (value stands for total_time)
TotalArr(rs) ==
    LET ks == Keys(rs)
    IN Ranked(SortDesc([i \in 1..Len(ks) |->
                          [user_id |-> ks[i], value |-> SumSeq(DurationsOf(rs, ks[i]))]]))

RECURSIVE RankTotals(_)
\* fetchRank's totals: totals[p.user_id] = (totals[p.user_id] || 0) + p.duration_s,
\* as the entries [user_id, value] in order of first assignment
RankTotals(rs) ==
    IF rs = <<>> THEN <<>>
    ELSE LET front == RankTotals(SubSeq(rs, 1, Len(rs) - 1))
             p == rs[Len(rs)]
         IN IF \E i \in 1..Len(front) : front[i].user_id = p.user_id
               THEN [i \in 1..Len(front) |->
                        IF front[i].user_id = p.user_id
                           THEN [front[i] EXCEPT !.value = @ + p.duration_s]
                           ELSE front[i]]
               ELSE Append(front, [user_id |-> p.user_id, value |-> 0 + p.duration_s])

\* fetchRank's sorted (value stands for total_time)
RankSorted(rs) == SortDesc(RankTotals(rs))

\* (mutant) the index taken as the rank
IndexFromZero(es, u) ==
    IF \E i \in 1..Len(es) : es[i].user_id = u
       THEN (CHOOSE i \in 1..Len(es) : es[i].user_id = u) - 1
       ELSE 0

\* sorted.findIndex((e) => e.user_id === uid) + 1, and 0 when there is none
IndexOf(es, u) ==
    IF \E i \in 1..Len(es) : es[i].user_id = u
       THEN CHOOSE i \in 1..Len(es) :
               es[i].user_id = u /\ \A j \in 1..(i - 1) : es[j].user_id # u
       ELSE 0

\* ------------------------------------------------------------ Leaderboard
\* The mount effect calls loadLeaderboard: setLoading(true), then the query.
LoadLeaderboard ==
    /\ boardPc = "idle"
    /\ loading' = TRUE
    /\ boardPc' = "planks"
    /\ boardToast' = "none"
    /\ UNCHANGED <<boardLocal, best, total, rows, userId, statsVars, restVars>>

\* The planks query returns: rows, an error, or neither (planks!.forEach throws).
BoardPlanksDone(res) ==
    /\ boardPc = "planks"
    /\ IF res = "ok"
          THEN /\ boardLocal' = [planks |-> rows, bestArr |-> BestArr(rows),
                               totalArr |-> TotalArr(rows)]
               /\ boardPc' = "profiles"
               /\ boardToast' = "none"
               /\ UNCHANGED loading
          ELSE /\ boardToast' = "Could not load leaderboard."
               /\ loading' = FALSE
               /\ boardPc' = "failed"
               /\ UNCHANGED boardLocal
    /\ UNCHANGED <<best, total, rows, userId, statsVars, restVars>>

\* The profiles query returns: profiles, an error, or neither (profiles!.find
\* throws for the first entry mapped).  The merged name and image are display
\* only.
BoardProfilesDone(res) ==
    /\ boardPc = "profiles"
    /\ LET ok == res = "ok" \/ (res = "null" /\ boardLocal.bestArr = <<>>) IN
       /\ IF ok
             THEN /\ best' = boardLocal.bestArr
                  /\ total' = boardLocal.totalArr
                  /\ boardToast' = "none"
             ELSE /\ boardToast' = "Could not load leaderboard."
                  /\ UNCHANGED <<best, total>>
       /\ boardPc' = IF ok THEN "done" ELSE "failed"
    /\ loading' = FALSE
    /\ UNCHANGED <<boardLocal, rows, userId, statsVars, restVars>>

\* -------------------------------------------------------------- UserStats
\* The effect on [userId] calls fetchRank: setLoadingRank(true), then
\* getUser when there is no userId prop, then the query.
FetchRank ==
    /\ rankPc = "idle"
    /\ loadingRank' = TRUE
    /\ rankUid' = userId
    /\ rankPc' = IF userId = "" THEN "user" ELSE "planks"
    /\ boardToast' = "none"
    /\ UNCHANGED <<rankLocal, monthlyRank, monthlyPercentile, rows, userId, leaderVars,
                   restVars>>

\* supabase.auth.getUser() returns the identity `u`, or none ("")
RankUserDone(u) ==
    /\ rankPc = "user"
    /\ IF u = ""
          THEN /\ boardToast' = "Could not load 30-day ranking."
               /\ loadingRank' = FALSE
               /\ rankPc' = "failed"
               /\ UNCHANGED rankUid
          ELSE /\ rankUid' = u
               /\ rankPc' = "planks"
               /\ boardToast' = "none"
               /\ UNCHANGED loadingRank
    /\ UNCHANGED <<rankLocal, monthlyRank, monthlyPercentile, rows, userId, leaderVars,
                   restVars>>

\* RankPlanksDone with a catch block that resets the rank to null
RankPlanksClears(res) ==
    /\ rankPc = "planks"
    /\ IF res # "error"
          THEN LET planks30 == IF res = "ok" THEN rows ELSE <<>>
                   sorted == RankSorted(planks30)
                   rank == IndexOf(sorted, rankUid)
               IN /\ rankLocal' = [planks |-> planks30, sorted |-> sorted]
                  /\ monthlyRank' = rank
                  /\ monthlyPercentile' = IF rank > 0
                                             THEN [num |-> rank * 100, den |-> Len(sorted)]
                                             ELSE NoPercentile
                  /\ boardToast' = "none"
          ELSE /\ boardToast' = "Could not load 30-day ranking."
               /\ monthlyRank' = 0
               /\ monthlyPercentile' = NoPercentile
               /\ UNCHANGED rankLocal
    /\ loadingRank' = FALSE
    /\ rankPc' = IF res # "error" THEN "done" ELSE "failed"
    /\ UNCHANGED <<rankUid, rows, userId, leaderVars, restVars>>

\* The planks query returns rows, an error, or neither ((planks || []) is
\* then empty): the aggregation, the rank and the percentile
\* (rank / totalCount) * 100, kept as the fraction rank * 100 / totalCount.
RankPlanksDone(res) ==
    /\ rankPc = "planks"
    /\ IF res # "error"
          THEN LET planks30 == IF res = "ok" THEN rows ELSE <<>>
                   sorted == RankSorted(planks30)
                   rank == IndexOf(sorted, rankUid)
               IN /\ rankLocal' = [planks |-> planks30, sorted |-> sorted]
                  /\ monthlyRank' = rank
                  /\ monthlyPercentile' = IF rank > 0
                                             THEN [num |-> rank * 100, den |-> Len(sorted)]
                                             ELSE NoPercentile
                  /\ boardToast' = "none"
          ELSE /\ boardToast' = "Could not load 30-day ranking."
               /\ UNCHANGED <<rankLocal, monthlyRank, monthlyPercentile>>
    /\ loadingRank' = FALSE
    /\ rankPc' = IF res # "error" THEN "done" ELSE "failed"
    /\ UNCHANGED <<rankUid, rows, userId, leaderVars, restVars>>

\* ---------------------------------------------------------------- fetchStats
\* The stats rows the service may hold for an identity, and the badge lists.
StatsRows == {"s1", "s2"}

BadgeLists == {<<>>, <<"b1">>}

\* The [userId] effect of UserStats runs fetchStats up to its first await.
FetchStats ==
    /\ statsPc = "idle"
    /\ loadingStats' = TRUE
    /\ statsPc' = IF userId = "" THEN "user" ELSE "query"
    /\ boardToast' = "none"
    /\ UNCHANGED <<stats, badgePc, badges, badgesLoading, rows, userId, leaderVars,
                   statsVars, plankVars, formatVars, rankStale>>

\* supabase.auth.getUser() returns an identity (ok) or none
StatsUserDone(ok) ==
    /\ statsPc = "user"
    /\ IF ok
          THEN /\ statsPc' = "query"
               /\ boardToast' = "none"
               /\ UNCHANGED loadingStats
          ELSE /\ boardToast' = "Could not load statistics."
               /\ loadingStats' = FALSE
               /\ statsPc' = "failed"
    /\ UNCHANGED <<stats, badgePc, badges, badgesLoading, rows, userId, leaderVars,
                   statsVars, plankVars, formatVars, rankStale>>

\* .single() returns the row `data`, the error PGRST116 with data null
\* ("norow"), or another error.
StatsQueryDone(res, data) ==
    /\ statsPc = "query"
    /\ IF res = "error"
          THEN /\ boardToast' = "Could not load statistics."
               /\ statsPc' = "failed"
               /\ UNCHANGED stats
          ELSE /\ stats' = IF res = "row" THEN data ELSE "null"
               /\ statsPc' = "done"
               /\ boardToast' = "none"
    /\ loadingStats' = FALSE
    /\ UNCHANGED <<badgePc, badges, badgesLoading, rows, userId, leaderVars,
                   statsVars, plankVars, formatVars, rankStale>>

\* ---------------------------------------------------------------- loadBadges
\* The [loadBadges] effect of AchievementBadges runs loadBadges up to its await.
LoadBadges ==
    /\ badgePc = "idle"
    /\ badgesLoading' = TRUE
    /\ badgePc' = "query"
    /\ boardToast' = "none"
    /\ UNCHANGED <<badges, statsPc, stats, loadingStats, rows, userId, leaderVars,
                   statsVars, plankVars, formatVars, rankStale>>

\* The badges query returns the list `data`, an error, or neither
\* ((data || []) is then empty).
BadgesDone(res, data) ==
    /\ badgePc = "query"
    /\ IF res = "error"
          THEN /\ boardToast' = "Could not load badges"
               /\ badgePc' = "failed"
               /\ UNCHANGED badges
          ELSE /\ badges' = IF res = "ok" THEN data ELSE <<>>
               /\ badgePc' = "done"
               /\ boardToast' = "none"
    /\ badgesLoading' = FALSE
    /\ UNCHANGED <<statsPc, stats, loadingStats, rows, userId, leaderVars,
                   statsVars, plankVars, formatVars, rankStale>>

\* The userId prop changes to `u` while no fetch of the profile views is in
\* flight: the [userId] effects and the [loadBadges] effect run again.
SetUserId(u) ==
    /\ u # userId
    /\ statsPc \in {"done", "failed"}
    /\ rankPc \in {"done", "failed"}
    /\ badgePc \in {"done", "failed"}
    /\ userId' = u
    /\ statsPc' = "idle"
    /\ rankPc' = "idle"
    /\ badgePc' = "idle"
    /\ boardToast' = "none"
    /\ UNCHANGED <<stats, loadingStats, badges, badgesLoading, rankUid, rankLocal,
                   monthlyRank, monthlyPercentile, loadingRank, rows, leaderVars,
                   plankVars, formatVars, rankStale>>

\* ------------------------------------------------- overlapping fetchRank
\* The userId prop changes to `u` while a fetchRank call is outstanding: the
\* effect has no cleanup, so that call goes on and the [userId] effects run
\* again.  The model follows one earlier call beside the latest one.
SetUserIdInFlight(u) ==
    /\ u # userId
    /\ rankPc \in {"user", "planks"}
    /\ rankStale.pc \notin {"user", "planks"}
    /\ statsPc \notin {"user", "query"}
    /\ badgePc # "query"
    /\ userId' = u
    /\ rankStale' = [pc |-> rankPc, uid |-> rankUid]
    /\ rankPc' = "idle"
    /\ statsPc' = "idle"
    /\ badgePc' = "idle"
    /\ boardToast' = "none"
    /\ UNCHANGED <<stats, loadingStats, badges, badgesLoading, rankUid, rankLocal,
                   monthlyRank, monthlyPercentile, loadingRank, rows, leaderVars,
                   plankVars, formatVars>>

\* supabase.auth.getUser() of the earlier call returns the identity `u`, or
\* none ("")
StaleRankUserDone(u) ==
    /\ rankStale.pc = "user"
    /\ IF u = ""
          THEN /\ boardToast' = "Could not load 30-day ranking."
               /\ loadingRank' = FALSE
               /\ rankStale' = [rankStale EXCEPT !.pc = "failed"]
          ELSE /\ rankStale' = [pc |-> "planks", uid |-> u]
               /\ boardToast' = "none"
               /\ UNCHANGED loadingRank
    /\ UNCHANGED <<rankPc, rankUid, rankLocal, monthlyRank, monthlyPercentile, rows,
                   userId, leaderVars, plankVars, formatVars>>
    /\ UNCHANGED <<statsPc, stats, loadingStats, badgePc, badges, badgesLoading>>

\* (mutant) the effect's cleanup marks the earlier call cancelled, and a
\* cancelled call drops its response
StaleRankDropped(res) ==
    /\ rankStale.pc = "planks"
    /\ rankStale' = [rankStale EXCEPT !.pc = IF res # "error" THEN "done" ELSE "failed"]
    /\ boardToast' = "none"
    /\ UNCHANGED <<rankPc, rankUid, rankLocal, monthlyRank, monthlyPercentile,
                   loadingRank, rows, userId, leaderVars, plankVars, formatVars>>
    /\ UNCHANGED <<statsPc, stats, loadingStats, badgePc, badges, badgesLoading>>

\* The planks query of the earlier call returns: the same aggregation with
\* that call's uid, written to the same rank and percentile.
StaleRankPlanksDone(res) ==
    /\ rankStale.pc = "planks"
    /\ IF res # "error"
          THEN LET planks30 == IF res = "ok" THEN rows ELSE <<>>
                   sorted == RankSorted(planks30)
                   rank == IndexOf(sorted, rankStale.uid)
               IN /\ monthlyRank' = rank
                  /\ monthlyPercentile' = IF rank > 0
                                             THEN [num |-> rank * 100, den |-> Len(sorted)]
                                             ELSE NoPercentile
                  /\ boardToast' = "none"
          ELSE /\ boardToast' = "Could not load 30-day ranking."
               /\ UNCHANGED <<monthlyRank, monthlyPercentile>>
    /\ loadingRank' = FALSE
    /\ rankStale' = [rankStale EXCEPT !.pc = IF res # "error" THEN "done" ELSE "failed"]
    /\ UNCHANGED <<rankPc, rankUid, rankLocal, rows, userId, leaderVars, plankVars,
                   formatVars>>
    /\ UNCHANGED <<statsPc, stats, loadingStats, badgePc, badges, badgesLoading>>

\* --------------------------------------------------------------- formatTime
\* Strings are sequences of characters.
Digit(d) == <<"0", "1", "2", "3", "4", "5", "6", "7", "8", "9">>[d + 1]

RECURSIVE Decimal(_)
\* Number.prototype.toString() and `${n}`, for an integer n >= 0
Decimal(n) == IF n < 10 THEN <<Digit(n)>> ELSE Append(Decimal(n \div 10), Digit(n % 10))

RECURSIVE PadStart(_, _, _)
\* str.padStart(n, c)
PadStart(str, n, c) == IF Len(str) >= n THEN str ELSE PadStart(<<c>> \o str, n, c)

\* `${m}:${s < 10 ? "0" + s : s}` with m = Math.floor(t / 60), s = t % 60
MinutesColonSeconds(t) ==
    LET m == t \div 60
        s == t % 60
    IN Decimal(m) \o <<":">> \o (IF s < 10 THEN <<"0">> \o Decimal(s) ELSE Decimal(s))

\* PlankTimer.tsx formatTime
TimerFormatTime(t) ==
    PadStart(Decimal(t \div 60), 2, "0") \o <<":">> \o PadStart(Decimal(t % 60), 2, "0")

\* UserStats formatTime
StatsFormatTime(sec) == MinutesColonSeconds(sec)

\* Leaderboard formatTime
BoardFormatTime(totalSeconds) == MinutesColonSeconds(totalSeconds)

\* PlankDetailDialog formatTime
DetailFormatTime(t) == MinutesColonSeconds(t)

\* One view renders the duration.
Render(v, str) ==
    /\ shown[v] = <<>>
    /\ shown' = [shown EXCEPT ![v] = str]
    /\ UNCHANGED <<fmtT, plankVars, rows, userId, leaderVars, statsVars, boardToast,
                   fetchVars>>

RenderTimer == Render("timer", TimerFormatTime(fmtT))

RenderStats == Render("stats", StatsFormatTime(fmtT))

RenderBoard == Render("leaderboard", BoardFormatTime(fmtT))

RenderDetail == Render("detail", DetailFormatTime(fmtT))

\* ------------------------------------------------------------------- spec
\* Every event of the component, sessions of at most MaxTicks seconds.
Next ==
    \/ \E m \in {"stopwatch", "timer"} : SetMode(m)
    \/ \E v \in InputMins : SetInputMin(v)
    \/ \E v \in InputSecs : SetInputSec(v)
    \/ \E b \in BOOLEAN : SetVowCheat(b)
    \/ ToggleCamera
    \/ CameraGranted
    \/ CameraDenied
    \/ HandleStart
    \/ HandlePause
    \/ HandleReset
    \/ Tick
    \/ SnapInterval
    \/ \E b \in pending : DeliverBlob(b)
    \/ SavePlank
    \/ \E ok \in BOOLEAN : GetUserDone(ok)
    \/ \E res \in {"ok", "error", "empty"}, stored \in BOOLEAN : InsertDone(res, stored)
    \/ \E ok \in BOOLEAN : UploadDone(ok)
    \/ \E ok \in BOOLEAN : UpdateDone(ok)

Spec == Init /\ [][Next]_vars

\* The stopwatch sessions (the mode and the countdown inputs keep their
\* initial values), followed for LongTicks seconds.
NextCamera ==
    \/ \E b \in BOOLEAN : SetVowCheat(b)
    \/ ToggleCamera
    \/ CameraGranted
    \/ CameraDenied
    \/ HandleStart
    \/ HandlePause
    \/ HandleReset
    \/ TickWithin(LongTicks)
    \/ SnapWithin(LongCaptures)
    \/ \E b \in pending : DeliverBlob(b)
    \/ SavePlank
    \/ \E ok \in BOOLEAN : GetUserDone(ok)
    \/ \E res \in {"ok", "error", "empty"}, stored \in BOOLEAN : InsertDone(res, stored)
    \/ \E ok \in BOOLEAN : UploadDone(ok)
    \/ \E ok \in BOOLEAN : UpdateDone(ok)

SpecCamera == Init /\ [][NextCamera]_vars

\* Every event of sessions shorter than the capture period (the 10 s
\* interval never fires), followed for ShortTicks seconds.
NextShort ==
    \/ \E m \in {"stopwatch", "timer"} : SetMode(m)
    \/ \E v \in InputMins : SetInputMin(v)
    \/ \E v \in InputSecs : SetInputSec(v)
    \/ \E b \in BOOLEAN : SetVowCheat(b)
    \/ ToggleCamera
    \/ CameraGranted
    \/ CameraDenied
    \/ HandleStart
    \/ HandlePause
    \/ HandleReset
    \/ TickWithin(ShortTicks)
    \/ \E b \in pending : DeliverBlob(b)
    \/ SavePlank
    \/ \E ok \in BOOLEAN : GetUserDone(ok)
    \/ \E res \in {"ok", "error", "empty"}, stored \in BOOLEAN : InsertDone(res, stored)
    \/ \E ok \in BOOLEAN : UploadDone(ok)
    \/ \E ok \in BOOLEAN : UpdateDone(ok)

SpecShort == Init /\ [][NextShort]_vars

\* Countdowns of at most ShortTicks seconds (the "Min" field keeps 0), with
\* the 1 s interval firing as long as it exists: a timer that is due fires.
NextCountdown ==
    \/ \E m \in {"stopwatch", "timer"} : SetMode(m)
    \/ \E v \in CountdownSecs : SetInputSec(v)
    \/ \E b \in BOOLEAN : SetVowCheat(b)
    \/ ToggleCamera
    \/ CameraGranted
    \/ CameraDenied
    \/ HandleStart
    \/ HandlePause
    \/ HandleReset
    \/ TickWithin(ShortTicks)
    \/ \E b \in pending : DeliverBlob(b)
    \/ SavePlank
    \/ \E ok \in BOOLEAN : GetUserDone(ok)
    \/ \E res \in {"ok", "error", "empty"}, stored \in BOOLEAN : InsertDone(res, stored)
    \/ \E ok \in BOOLEAN : UploadDone(ok)
    \/ \E ok \in BOOLEAN : UpdateDone(ok)

SpecCountdown == Init /\ [][NextCountdown]_vars /\ WF_vars(TickWithin(ShortTicks))

\* The two views that aggregate the planks of the last 30 days, for every
\* query result of at most MaxRows rows.
InitViews ==
    /\ InitTimer
    /\ \E rs \in SeqsUpTo([user_id : Users, duration_s : Durations], MaxRows),
          u \in Users \cup {""} : InitBoard(rs, u)
    /\ InitFormat(0)

NextViews ==
    \/ LoadLeaderboard
    \/ \E res \in {"ok", "error", "null"} : BoardPlanksDone(res)
    \/ \E res \in {"ok", "error", "null"} : BoardProfilesDone(res)
    \/ FetchRank
    \/ \E u \in Users \cup {""} : RankUserDone(u)
    \/ \E res \in {"ok", "error", "null"} : RankPlanksDone(res)

SpecViews == InitViews /\ [][NextViews]_vars

\* The four formatters applied to every duration of at most MaxSeconds.
InitFormats ==
    /\ InitTimer
    /\ InitBoard(<<>>, "")
    /\ \E t \in 0..MaxSeconds : InitFormat(t)

NextFormats == RenderTimer \/ RenderStats \/ RenderBoard \/ RenderDetail

SpecFormat == InitFormats /\ [][NextFormats]_vars

\* The four fetches with their failures, and userId prop changes
FetchUsers == {"", "u1", "u2"}

InitFetch ==
    /\ InitTimer
    /\ InitFormat(0)
    /\ \E rs \in SeqsUpTo([user_id : {"u1", "u2"}, duration_s : {1}], FetchRows) :
          \E u \in {"", "u1"} : InitBoard(rs, u)

NextFetch ==
    \/ LoadLeaderboard
    \/ \E res \in {"ok", "error", "null"} : BoardPlanksDone(res)
    \/ \E res \in {"ok", "error", "null"} : BoardProfilesDone(res)
    \/ FetchRank
    \/ \E u \in {"", "u1"} : RankUserDone(u)
    \/ \E res \in {"ok", "error", "null"} : RankPlanksDone(res)
    \/ FetchStats
    \/ \E ok \in BOOLEAN : StatsUserDone(ok)
    \/ \E res \in {"row", "norow", "error"} : \E data \in StatsRows :
          StatsQueryDone(res, data)
    \/ LoadBadges
    \/ \E res \in {"ok", "error", "null"} : \E data \in BadgeLists : BadgesDone(res, data)
    \/ \E u \in FetchUsers : SetUserId(u)

SpecFetch == InitFetch /\ [][NextFetch]_vars

\* Sessions without the camera (a recorder then ends with its insert), a
\* session being free to start while the recorder of the previous one is still
\* running.  One recorder is followed at a time: a session is finalized once
\* the recorder of the previous one has returned.
OneRecorder == task.pc \in {"none", "done"}

NextSessions ==
    \/ \E m \in {"stopwatch", "timer"} : SetMode(m)
    \/ \E v \in InputMins : SetInputMin(v)
    \/ \E v \in InputSecs : SetInputSec(v)
    \/ \E b \in BOOLEAN : SetVowCheat(b)
    \/ StartOverlapping
    \/ HandlePause
    \/ HandleReset
    \/ (bound.mode = "timer" /\ CountdownDone(seconds) => OneRecorder)
          /\ TickWithin(ShortTicks)
    \/ OneRecorder /\ SavePlank
    \/ \E ok \in BOOLEAN : GetUserDone(ok)
    \/ \E res \in {"ok", "error", "empty"}, stored \in BOOLEAN : InsertDone(res, stored)

SpecSessions == Init /\ [][NextSessions]_vars

\* The rank fetch of UserStats with changes of the userId prop while a call
\* is outstanding
InitRace ==
    /\ InitTimer
    /\ InitFormat(0)
    /\ \E rs \in SeqsUpTo([user_id : {"u1", "u2"}, duration_s : {1, 2}], RaceRows) :
          \E u \in FetchUsers : InitBoard(rs, u)

NextRace ==
    \/ FetchRank
    \/ \E u \in FetchUsers : RankUserDone(u)
    \/ \E res \in {"ok", "error", "null"} : RankPlanksDone(res)
    \/ \E u \in FetchUsers : SetUserIdInFlight(u)
    \/ \E u \in FetchUsers : StaleRankUserDone(u)
    \/ \E res \in {"ok", "error", "null"} : StaleRankPlanksDone(res)

SpecRace == InitRace /\ [][NextRace]_vars

\* ----------------------------------------------------------------- claims
\* The notifications `msg` among those the recorder has raised.
Count(xs, msg) == Cardinality({i \in 1..Len(xs) : xs[i] = msg})

\* The countdown target the inputs configure.
Target == inputMin * 60 + inputSec

\* C1: a countdown session run to automatic completion records the target
\* configured when it was started: on the Completed view of a countdown (the
\* inputs still hold what the start request read) the duration handed to the
\* insert, and the duration of every row inserted, equal that target.
C1_CountdownRecordsTarget ==
    (isCompleted /\ mode = "timer") =>
        /\ Target > 0
        /\ task.pc # "none"
        /\ task.duration = Target
        /\ \A i \in 1..Len(planks) : planks[i].duration_s = Target

C1_Witness ==
    /\ isCompleted /\ mode = "timer" /\ Target = 2
    /\ Len(planks) = 1 /\ planks[1].duration_s = 2

\* C2: a start request makes the session Active iff the acknowledgment flag
\* is set and the mode is stopwatch or the countdown target is positive;
\* otherwise it raises a warning and leaves seconds, isActive, isCompleted and
\* the snapshot buffer unchanged.
C2_StartGate ==
    [][HandleStart =>
        LET accept == vowCheat /\ (mode = "stopwatch" \/ Target > 0) IN
        /\ isActive' <=> accept
        /\ ~accept =>
              /\ toast' \in {"You must swear you won't cheat before you start!",
                             "Please set a positive timer."}
              /\ UNCHANGED <<seconds, isActive, isCompleted, snapshots>>]_vars

C2_Witness ==
    /\ toast = "Please set a positive timer."
    /\ vowCheat /\ mode = "timer" /\ Target = 0 /\ ~isActive
    /\ snapshots # <<>>

\* No blob captured before the latest accepted start is in the buffer or
\* still to be delivered.
NoStale == 0 \notin pending /\ 0 \notin Range(snapshots)

\* The captures of the Active session: one at the start and one per firing
\* of the 10 s interval, all of them delivered as images.
AllDelivered == isActive /\ useCamera /\ allYield /\ pending = {} /\ NoStale

\* The last Min(3, k) of the captures 1..k, in capture order.
LastOf(k) == [i \in 1..Min(KeepSnapshots, k) |-> k - Min(KeepSnapshots, k) + i]

\* C3 (as claimed): the buffer holds the most recent captures, so after
\* k >= 3 delivered captures it equals the last 3 in capture order.
C3_KeepsLatest ==
    (AllDelivered /\ snapFired + 1 >= KeepSnapshots) => snapshots = LastOf(snapFired + 1)

\* C4: the buffer, the snapshots a recorder uploads, and every evidence list
\* written to a row hold at most 3 entries.
C4_AtMostThree ==
    /\ Len(snapshots) <= 3
    /\ Len(task.snaps) <= 3
    /\ Len(task.paths) <= 3
    /\ \A i \in 1..Len(planks) : Len(planks[i].photos) <= 3

C4_Witness ==
    /\ Len(planks) = 1 /\ Len(planks[1].photos) = 3
    /\ Len(snapshots) = 3

\* Both intervals have fired for every time up to now.
Settled == snapFired = tickFired \div SnapshotPeriod

Saved == task.pc = "done" /\ task.plankId # 0

Failures == Count(task.toasts, "Could not upload photo.")

\* C6: when k of the n uploads fail, all n uploads are attempted in order,
\* exactly k failure notifications are raised, the row persists, and the
\* evidence list written holds exactly the n - k paths.
C6_PartialUploads ==
    Saved =>
        /\ task.attempted = task.snaps
        /\ Failures + Len(task.paths) = Len(task.snaps)
        /\ task.plankId \in 1..Len(planks)
        /\ planks[task.plankId].duration_s = task.duration
        /\ task.written => planks[task.plankId].photos = task.paths
        /\ task.toasts[Len(task.toasts)] = "Plank saved!"

C6_Witness ==
    /\ Saved /\ Len(task.snaps) = 3 /\ Failures = 2
    /\ Len(planks[task.plankId].photos) = 1

\* C7: without an authenticated identity the recorder raises "You must be
\* logged in." and returns: no insert, no upload, no update.
C7_NoUserAborts ==
    (task.pc \notin {"none", "getUser"} /\ ~task.user) =>
        /\ task.pc = "done"
        /\ task.toasts = <<"You must be logged in.">>
        /\ task.inserts = 0 /\ planks = <<>>
        /\ task.attempted = <<>>
        /\ task.updates = 0

C7_Witness ==
    /\ task.pc = "done" /\ ~task.user /\ Len(task.snaps) > 0
    /\ task.toasts = <<"You must be logged in.">>

\* C8: when the insert fails (an error or no row returned) the recorder
\* raises "Could not save plank." and returns: no upload, no update, no
\* success notification.
C8_InsertFailureAborts ==
    (task.inserts = 1 /\ task.pc # "insert" /\ task.plankId = 0) =>
        /\ task.pc = "done"
        /\ task.toasts = <<"Could not save plank.">>
        /\ task.attempted = <<>>
        /\ task.updates = 0

C8_Witness ==
    /\ task.pc = "done" /\ task.inserts = 1 /\ task.plankId = 0
    /\ Len(task.snaps) > 0 /\ task.toasts = <<"Could not save plank.">>

\* C9: the evidence list is written at most once, after every upload has
\* been attempted, and iff at least one upload succeeded; otherwise no update
\* is issued, and in either case the inserted row stays.
C9_SingleUpdate ==
    /\ task.updates <= 1
    /\ task.updates = 1 => task.attempted = task.snaps /\ Len(task.paths) > 0
    /\ Saved => (task.updates = 1 <=> Len(task.paths) > 0)
    /\ task.plankId # 0 =>
          /\ task.plankId \in 1..Len(planks)
          /\ planks[task.plankId].duration_s = task.duration
          /\ planks[task.plankId].photos # <<>> => task.written
          /\ task.written => task.updates = 1

C9_Witness ==
    /\ Saved /\ Len(task.snaps) = 2 /\ task.paths = <<>>
    /\ task.updates = 0 /\ planks[task.plankId].photos = <<>>

RECURSIVE SumFrom(_, _)
\* xs[k] + ... + xs[Len(xs)]
SumFrom(xs, k) == IF k > Len(xs) THEN 0 ELSE xs[k] + SumFrom(xs, k + 1)

\* The sum of the values of the entries `es`.
SumValues(es) == SumFrom([i \in 1..Len(es) |-> es[i].value], 1)

\* One entry for each identity of the rows, and no other.
OnePerIdentity(es, rs) ==
    /\ {es[i].user_id : i \in 1..Len(es)} = {rs[i].user_id : i \in 1..Len(rs)}
    /\ \A i, j \in 1..Len(es) : es[i].user_id = es[j].user_id => i = j

\* The sum of the durations of the rows `rs`.
SumDurations(rs) == SumFrom([i \in 1..Len(rs) |-> rs[i].duration_s], 1)

\* C10: the totals computed by "aggregate by total" (loadLeaderboard's
\* totalArr, the list shown once loaded, and fetchRank's sorted) sum to the sum
\* of the durations of the rows aggregated, with exactly one entry for each
\* distinct identity among them.
C10_TotalsPreserveSum ==
    /\ boardPc \in {"profiles", "done"} =>
          /\ SumValues(boardLocal.totalArr) = SumDurations(boardLocal.planks)
          /\ OnePerIdentity(boardLocal.totalArr, boardLocal.planks)
    /\ boardPc = "done" =>
          /\ boardLocal.planks = rows
          /\ SumValues(total) = SumDurations(rows)
          /\ OnePerIdentity(total, rows)
    /\ rankPc = "done" =>
          /\ SumValues(rankLocal.sorted) = SumDurations(rankLocal.planks)
          /\ OnePerIdentity(rankLocal.sorted, rankLocal.planks)

C10_Witness ==
    /\ boardPc = "done" /\ Len(rows) = 3 /\ Len(total) = 2
    /\ SumValues(total) = 4
    /\ rankPc = "done" /\ rankLocal.planks = rows /\ monthlyRank = 2

\* The identities of the rows `rs`.
Identities(rs) == {rs[i].user_id : i \in 1..Len(rs)}

\* `es` ranks n entries: the ranks are a permutation of 1..n, and a strictly
\* larger value has a strictly smaller rank.
IsRanking(es, n) ==
    /\ Len(es) = n
    /\ {es[i].rank : i \in 1..Len(es)} = 1..n
    /\ \A i, j \in 1..Len(es) :
          /\ i # j => es[i].rank # es[j].rank
          /\ es[i].value > es[j].value => es[i].rank < es[j].rank

\* C11: for N distinct identities the ranks of both lists (by best, by
\* total) are a permutation of 1..N that follows descending aggregate value;
\* tied aggregates get distinct ranks.
C11_RanksArePermutation ==
    LET n == Cardinality(Identities(boardLocal.planks)) IN
    /\ boardPc \in {"profiles", "done"} =>
          IsRanking(boardLocal.bestArr, n) /\ IsRanking(boardLocal.totalArr, n)
    /\ boardPc = "done" => IsRanking(best, n) /\ IsRanking(total, n)

C11_Witness ==
    /\ boardPc = "done" /\ Len(total) = 3
    /\ total[1].value = total[2].value /\ total[1].rank = 1 /\ total[2].rank = 2
    /\ best[2].value > best[3].value /\ best[3].rank = 3

\* C12: fetchRank leaves the identity unranked (no rank, no percentile) when
\* it has no row in the window; otherwise the rank is its 1-based position in
\* the descending total-time order and the percentile is rank / N * 100 for N
\* distinct identities: 100 / N for the top rank, and always in (0, 100].
C12_RankAndPercentile ==
    rankPc = "done" =>
        LET n == Cardinality(Identities(rankLocal.planks))
            sorted == rankLocal.sorted
        IN IF rankUid \notin Identities(rankLocal.planks)
              THEN monthlyRank = 0 /\ monthlyPercentile = NoPercentile
              ELSE /\ monthlyRank \in 1..n
                   /\ sorted[monthlyRank].user_id = rankUid
                   /\ \A i \in 1..Len(sorted) :
                         sorted[i].value > sorted[monthlyRank].value => i < monthlyRank
                   /\ monthlyPercentile = [num |-> monthlyRank * 100, den |-> n]
                   /\ 0 < monthlyPercentile.num
                   /\ monthlyPercentile.num <= 100 * monthlyPercentile.den

C12_Witness ==
    /\ rankPc = "done" /\ monthlyRank = 1
    /\ monthlyPercentile = [num |-> 100, den |-> 3]

\* The rows of `rs` that belong to `u`.
RowsOf(rs, u) == SelectSeq(rs, LAMBDA p : p.user_id = u)

\* The longest duration among the rows of `u`.
BestOf(rs, u) ==
    CHOOSE m \in {p.duration_s : p \in Range(RowsOf(rs, u))} :
        \A p \in Range(RowsOf(rs, u)) : p.duration_s <= m

\* C13: for every identity of the input its "by best" value is the maximum
\* of its durations and its "by total" value their sum, and both lists hold
\* the same identities.
C13_BestAndTotal ==
    boardPc \in {"profiles", "done"} =>
        LET rs == boardLocal.planks
            b == boardLocal.bestArr
            t == boardLocal.totalArr
        IN /\ {b[i].user_id : i \in 1..Len(b)} = Identities(rs)
           /\ {t[i].user_id : i \in 1..Len(t)} = Identities(rs)
           /\ \A i \in 1..Len(b) : b[i].value = BestOf(rs, b[i].user_id)
           /\ \A i \in 1..Len(t) : t[i].value = SumDurations(RowsOf(rs, t[i].user_id))
           /\ boardPc = "done" => best = b /\ total = t

C13_Witness ==
    /\ boardPc = "done" /\ Len(rows) = 3 /\ Len(best) = 2
    /\ \E i, j \in 1..2 :
          /\ best[i].user_id = total[j].user_id
          /\ best[i].value = 3 /\ total[j].value = 4

\* Minutes without padding, a colon, seconds padded to two digits.
Expected(t) ==
    Decimal(t \div 60) \o <<":", Digit((t % 60) \div 10), Digit((t % 60) % 10)>>

\* C14 (as claimed): every view's formatter maps t to the decimal of
\* floor(t / 60) without padding, a colon, and t mod 60 padded to two digits,
\* so all views show the same string for the same t.
C14_SameFormat ==
    \A v \in Views : shown[v] # <<>> => shown[v] = Expected(fmtT)

\* C15: a reset request brings the session to Idle (not active, not
\* completed, seconds 0, countdown inputs 0, acknowledgment cleared, buffer
\* empty), and a start request made without the acknowledgment is rejected.
C15_ResetToIdle ==
    /\ [][HandleReset =>
            /\ ~isActive' /\ ~isCompleted'
            /\ seconds' = 0
            /\ inputMin' = 0 /\ inputSec' = 0
            /\ ~vowCheat'
            /\ snapshots' = <<>>]_vars
    /\ [][(HandleStart /\ ~vowCheat) =>
            /\ ~isActive'
            /\ toast' = "You must swear you won't cheat before you start!"]_vars

\* The Idle state a reset from Completed leaves, and the start request
\* rejected in it.
C15_Witness ==
    /\ task.pc = "done" /\ Len(planks) = 1
    /\ ~isActive /\ ~isCompleted /\ seconds = 0 /\ Target = 0
    /\ ~vowCheat /\ snapshots = <<>>
    /\ toast = "You must swear you won't cheat before you start!"

\* C16 (as claimed): in every state that is Active, Paused (not active with
\* non-zero seconds) or Completed, no step changes the mode.
C16_ModeOnlyIdle ==
    [][(isActive \/ isCompleted \/ seconds > 0) => mode' = mode]_vars

\* C17: once the session is not Active, no tick and no periodic capture
\* happens until the next accepted start: seconds changes only by a start or
\* a reset request, no interval has fired, and no capture is initiated
\* except the one an accepted start takes.
C17_TimersCancelled ==
    [][~isActive =>
          /\ seconds' # seconds => (HandleStart \/ HandleReset)
          /\ pending' \subseteq pending \/ HandleStart
          /\ tickFired' = 0 /\ snapFired' = 0]_vars

\* A session paused after 12 seconds with the camera on: both intervals
\* had fired, and neither is counted any more.
C17_Witness ==
    /\ ~isActive /\ ~isCompleted /\ useCamera
    /\ seconds = 12 /\ Len(snapshots) = 2
    /\ tickFired = 0 /\ snapFired = 0

\* C20 (as claimed): the recorder started by a transition to Completed
\* uploads the snapshots the buffer holds at that moment.
C20_UploadsBuffer ==
    [][(~isCompleted /\ isCompleted') => task'.snaps = snapshots]_vars

\* C19 (as claimed): every tick changes seconds by exactly one, down in
\* countdown mode and up in stopwatch mode.
C19_EveryTickByOne ==
    [][TickWithin(ShortTicks) =>
          IF bound.mode = "timer" THEN seconds' = seconds - 1
                                  ELSE seconds' = seconds + 1]_vars

\* C19 (amended): a tick that does not complete the session changes seconds
\* by exactly one; a countdown started with target T completes on exactly the
\* T-th tick, which leaves seconds at 0 or at T; seconds never goes below 0;
\* a stopwatch tick never completes the session; and with the interval firing
\* when due, an Active countdown is eventually completed unless it is paused.
C19_TickSteps ==
    /\ [][TickWithin(ShortTicks) =>
            /\ seconds' >= 0
            /\ IF bound.mode = "timer"
                  THEN IF tickFired + 1 = initialSeconds
                          THEN /\ isCompleted' /\ ~isActive'
                               /\ seconds' \in {0, initialSeconds}
                          ELSE /\ seconds' = seconds - 1 /\ seconds' > 0
                               /\ isActive' /\ ~isCompleted'
                  ELSE /\ seconds' = seconds + 1
                       /\ isActive' /\ ~isCompleted']_vars
    /\ (isActive /\ mode = "timer") ~> (isCompleted \/ ~isActive)

\* A countdown of 3 seconds completed by its third tick, showing its target.
C19_Witness ==
    /\ isCompleted /\ mode = "timer" /\ initialSeconds = 3
    /\ seconds = 3 /\ task.duration = 3

\* ---------------------------------------------------------------------- C18
\* The steps in which a read of the rank fetch, of the leaderboard fetch and of
\* the badge fetch comes back with an error, and what each must leave behind:
\* its one notification, its data as before, its loading flag cleared, and the
\* fetch at its end.
RankReadFails ==
    (RankUserDone("") \/ RankPlanksDone("error"))
        => /\ boardToast' = "Could not load 30-day ranking."
           /\ UNCHANGED <<monthlyRank, monthlyPercentile>>
           /\ ~loadingRank'
           /\ rankPc' = "failed"

BoardReadFails ==
    (BoardPlanksDone("error") \/ BoardProfilesDone("error"))
        => /\ boardToast' = "Could not load leaderboard."
           /\ UNCHANGED <<best, total>>
           /\ ~loading'
           /\ boardPc' = "failed"

BadgeReadFails ==
    (\E d \in BadgeLists : BadgesDone("error", d))
        => /\ boardToast' = "Could not load badges"
           /\ UNCHANGED badges
           /\ ~badgesLoading'
           /\ badgePc' = "failed"

StatsReadFails(errors) ==
    (StatsUserDone(FALSE) \/ \E res \in errors, d \in StatsRows : StatsQueryDone(res, d))
        => /\ boardToast' = "Could not load statistics."
           /\ UNCHANGED stats
           /\ ~loadingStats'
           /\ statsPc' = "failed"

\* A failed fetch is not issued again: it starts again only with a new userId.
NoRetry ==
    /\ rankPc = "failed" => (rankPc' = "failed" \/ userId' # userId)
    /\ statsPc = "failed" => (statsPc' = "failed" \/ userId' # userId)
    /\ badgePc = "failed" => (badgePc' = "failed" \/ userId' # userId)
    /\ boardPc = "failed" => boardPc' = "failed"

\* C18 as stated: whenever a read of the rank fetch, the stats fetch, the
\* leaderboard fetch or the badge fetch returns an error, one notification is
\* raised, the view's data keeps its value, the loading flag is cleared and the
\* fetch is not retried; every error of the stats query counts, the no-row
\* error PGRST116 too.
C18_EveryErrorNotified ==
    [][RankReadFails /\ BoardReadFails /\ BadgeReadFails
          /\ StatsReadFails({"error", "norow"}) /\ NoRetry]_vars

\* C18: whenever a read of the rank fetch, the leaderboard fetch or the badge
\* fetch returns an error, or a read of the stats fetch returns an error other
\* than the no-row error PGRST116, one notification is raised, the view's data
\* keeps its value, the loading flag is cleared and the fetch is not retried;
\* on PGRST116 the stats become null, without a notification.
C18_FailedReadNotified ==
    [][/\ RankReadFails /\ BoardReadFails /\ BadgeReadFails
       /\ StatsReadFails({"error"}) /\ NoRetry
       /\ (\E d \in StatsRows : StatsQueryDone("norow", d))
             => /\ stats' = "null"
                /\ boardToast' = "none"
                /\ ~loadingStats'
                /\ statsPc' = "done"]_vars

\* A rank fetch failed after an earlier one had ranked the user first: the rank
\* is still shown, with the notification.
C18_Witness ==
    /\ rankPc = "failed"
    /\ monthlyRank = 1
    /\ monthlyPercentile = [num |-> 100, den |-> 1]
    /\ ~loadingRank
    /\ boardToast = "Could not load 30-day ranking."

\* ---------------------------------------------------------------------- C22
\* A session that was started and is neither Active nor Completed.
Paused == session.open /\ ~isActive /\ ~isCompleted

\* C22 (as claimed): pausing a stopwatch session keeps the elapsed seconds
\* and the buffer, and a start accepted from Paused in stopwatch mode goes on
\* from them: the seconds and the buffer after the resume are those of the
\* pause.
C22_ResumeContinues ==
    [][/\ (HandlePause /\ mode = "stopwatch")
             => (seconds' = seconds /\ snapshots' = snapshots)
       /\ (Paused /\ mode = "stopwatch" /\ isActive')
             => (seconds' = seconds /\ snapshots' = snapshots)]_vars

\* ---------------------------------------------------------------------- C23
\* C23 (as claimed): the record of a session finalized in stopwatch mode, and
\* the duration its recorder was started with, carry the number of ticks since
\* the latest accepted start.
C23_DurationIsTicks ==
    (isCompleted /\ mode = "stopwatch") =>
        /\ task.duration = session.ticks
        /\ \A i \in 1..Len(planks) : planks[i].duration_s = session.ticks

\* ---------------------------------------------------------------------- C24
\* C24 (as claimed): the buffer never holds an image whose capture was started
\* before the latest accepted start, and it is empty from a reset until the
\* next accepted start.
C24_OnlyCurrentCaptures ==
    /\ 0 \notin Range(snapshots)
    /\ ~session.open => snapshots = <<>>

\* ---------------------------------------------------------------------- C21
\* The rank and the percentile a response with the rows `rs` shows for `u`.
RankShown(rs, u) ==
    LET sorted == RankSorted(rs)
        r == IndexOf(sorted, u)
    IN <<r, IF r > 0 THEN [num |-> r * 100, den |-> Len(sorted)] ELSE NoPercentile>>

\* C21: no fetchRank call is cancelled or suppressed by a change of the
\* identity: the response of the earlier call and the response of the later
\* one are each applied when they arrive, whatever the other call has done,
\* and nothing else changes the rank and the percentile; so they show the
\* response that arrived last, also when it is the earlier call's.
C21_LastResponseWins ==
    [][/\ StaleRankPlanksDone("ok")
             => <<monthlyRank, monthlyPercentile>>' = RankShown(rows, rankStale.uid)
       /\ StaleRankPlanksDone("null")
             => <<monthlyRank, monthlyPercentile>>' = RankShown(<<>>, rankStale.uid)
       /\ RankPlanksDone("ok")
             => <<monthlyRank, monthlyPercentile>>' = RankShown(rows, rankUid)
       /\ RankPlanksDone("null")
             => <<monthlyRank, monthlyPercentile>>' = RankShown(<<>>, rankUid)
       /\ <<monthlyRank, monthlyPercentile>>' # <<monthlyRank, monthlyPercentile>>
             => \/ rankPc = "planks" /\ rankPc' = "done"
                \/ rankStale.pc = "planks" /\ rankStale'.pc = "done"]_vars

\* Both calls have returned and the view shows the rank of the earlier
\* call's identity, which is not the rank of the identity it now displays.
C21_Witness ==
    /\ rankPc = "done" /\ rankStale.pc = "done"
    /\ userId = rankUid /\ rankStale.uid # rankUid
    /\ monthlyRank > 0
    /\ <<monthlyRank, monthlyPercentile>> = RankShown(rows, rankStale.uid)
    /\ <<monthlyRank, monthlyPercentile>> # RankShown(rows, rankUid)

\* ---------------------------------------------------------------------- C25
\* A step that inserts a session record, and a step in which handleComplete
\* starts a recorder.
RecordInserted == Len(planks') > Len(planks)

RecorderStarted == task' # task /\ task'.pc = "getUser"

\* Completed accepts no start, no pause and no save, and is left only by reset.
CompletedUntilReset ==
    isCompleted =>
        /\ ~isActive /\ ~isActive'
        /\ ~RecorderStarted
        /\ session' # session => HandleReset
        /\ ~isCompleted' => HandleReset

\* C25 (as stated): from an accepted start until the next reset at most one
\* record is inserted, whichever session it belongs to; a record is inserted
\* only while the session is Completed or after its reset; and Completed
\* accepts no start, pause or save and is left only by reset.
C25_OneRecordUntilReset ==
    [][/\ session'.open => Len(planks') <= 1
       /\ (RecordInserted /\ session.open) => isCompleted
       /\ CompletedUntilReset]_vars

\* C25: from an accepted start until the next reset handleComplete starts at
\* most one recorder (it starts one only on the transition to Completed, and
\* Completed lasts until the reset), a recorder inserts at most one record and
\* records are inserted by recorders only, so at most one record is inserted
\* for the session and only after it has become Completed; and Completed
\* accepts no start, pause or save and is left only by reset.
C25_OneRecordPerSession ==
    [][/\ RecorderStarted => (session.open /\ ~isCompleted /\ isCompleted')
       /\ RecordInserted => /\ task.pc = "insert" /\ task.inserts = 1
                            /\ task'.pc # "insert"
                            /\ Len(planks') = Len(planks) + 1
       /\ task'.inserts <= 1
       /\ CompletedUntilReset]_vars

\* A second session was started while the recorder of the first was running,
\* and is Completed: both records were inserted since its start.
C25_Witness ==
    /\ session.open /\ isCompleted
    /\ task.pc = "done"
    /\ Len(planks) = 2

====
